---- MODULE Spec2Model ----
(***************************************************************************)
(* A model of salt-cp (salt/cli/cp.py): the publish/subscribe completion   *)
(* barrier of SaltCP.run_oldstyle_v1 and the chunked transfer engine of    *)
(* SaltCP.run_chunked.                                                     *)
(***************************************************************************)
EXTENDS Integers, Sequences, FiniteSets, TLC

(***************************************************************************)
(* Bounds of the model.                                                    *)
(***************************************************************************)
\* Messages the workers and the broker put on the ephemeral topic in a run.
MaxEvents == 4
\* Messages buffered in the subscription and not yet consumed.
MaxPending == 2
\* Size in bytes of a source file.
MaxSize == 3

(***************************************************************************)
(* The barrier: run_oldstyle_v1.                                           *)
(***************************************************************************)
Workers == {"w1", "w2"}

\* salt.newrun.MessageType, and one value that is none of its members.
PING == "PING"
WORK == "WORK"
INTERRUPT == "INTERRUPT"
UnknownType == "OTHER"

\* cp_result payloads: two result maps and the falsy payload (None, {}).
NullResult == "null"
Payloads == {"r1", "r2", NullResult}

\* A message the broker delivers on the subscription.  type is the broker's
\* own message kind, json what json.loads makes of the data ("invalid": it
\* raises), keys the keys of the decoded dict.
Msg(t, j, ks, mt, ip, r) ==
    [type |-> t, json |-> j, keys |-> ks, mtype |-> mt, sub_ip |-> ip, cp_result |-> r]

Ctrl(mt, w) == Msg("message", "dict", {"type", "sub_ip"}, mt, w, "none")
CtrlNoIp(mt) == Msg("message", "dict", {"type"}, mt, "none", "none")
Data(r) == Msg("message", "dict", {"cp_result"}, "none", "none", r)
DataNoKey == Msg("message", "dict", {}, "none", "none", "none")
NotJson == Msg("message", "invalid", {}, "none", "none", "none")
NonDict == Msg("message", "list", {}, "none", "none", "none")
BrokerNote == Msg("subscribe", "int", {}, "none", "none", "none")

ControlEvents == {Ctrl(mt, w) : mt \in {PING, WORK, INTERRUPT}, w \in Workers}
Messages ==
    ControlEvents
    \cup {Ctrl(UnknownType, "w1"), CtrlNoIp(PING), CtrlNoIp(WORK)}
    \cup {Data(r) : r \in Payloads}
    \cup {DataNoKey, NotJson, NonDict, BrokerNote}

VARIABLES
    pc,            \* position of run_oldstyle_v1
    subscribed,    \* the ephemeral topic is subscribed
    published,     \* the directive is published
    channel,       \* messages buffered in the subscription
    comeSubList,   \* the acceptance step's result
    ping1stCount,
    work1stcount,
    sink,          \* cp_results handed to display_output, in order
    tracebacks,    \* tracebacks printed by the except clauses
    nEmitted,      \* history: messages put on the topic
    lost,          \* history: messages put on the topic while nobody subscribed
    pingsOf,       \* history: Ping events consumed, per worker
    worksOf,       \* history: Work and Interrupt events consumed, per worker
    completed,     \* history: workers with a Work/Interrupt consumed after a Ping
    dataLog,       \* history: cp_result of every data event consumed, in order
    sawInterrupt   \* history: an Interrupt event was consumed

\* run_chunked
VARIABLES
    cpc,           \* position of run_chunked
    opts,          \* src, dest, salt_cp_chunk_size, and the size of each file
    todo,          \* files the loop over the files dict has still to visit
    fn_,           \* the file being transferred
    remote_path,
    index,
    offset,        \* bytes of fn_ the reader has yielded
    failed,
    ret,
    calls,         \* the remote calls issued, in order
    filesDone,     \* history: files whose processing is finished
    firstFail,     \* history: per worker, its reply to the lowest-indexed chunk
                   \* of fn_ it did not answer with success
    todoDirs,      \* empty directories the loop over empty_dirs has still to visit
    everErr,       \* history: <<worker, remote path>> at which an error was recorded
    pubFailAt,     \* history: per file, the index of the chunk whose publish failed
    nReturned,     \* history: remote calls that have returned
    allOk,         \* history: every chunk call so far was answered with success
                   \* by every member of the TargetSet
    unacked,       \* history: <<file, worker>> such that the worker did not
                   \* answer some chunk call of the file with success
    dirReplies     \* history: per empty directory, what its call returned

\* The start of an operation, in each mode.
VARIABLES
    spc,           \* position in the start of the operation
    mode,          \* "chunked" (run_chunked), "oldstyle" (run_oldstyle), "barrier"
    tgtFile,       \* what the target-list file holds; "none" without file_target
    loaded,        \* the files _load_files has loaded
    recvCalled,    \* run_oldstyle has called cp.recv
    exitCode       \* exit status of the process, 0 while it runs

bvars == <<pc, subscribed, published, channel, comeSubList, ping1stCount,
           work1stcount, sink, tracebacks, nEmitted, lost, pingsOf, worksOf,
           completed, dataLog, sawInterrupt>>

chist == <<everErr, pubFailAt, nReturned, allOk, unacked, dirReplies>>

cvars == <<cpc, opts, todo, fn_, remote_path, index, offset, failed, ret,
           calls, filesDone, firstFail, todoDirs, chist>>

svars == <<spc, mode, tgtFile, loaded, recvCalled, exitCode>>

vars == <<bvars, cvars, svars>>

hist == <<pingsOf, worksOf, completed, dataLog, sawInterrupt>>

InitBarrier ==
    /\ pc = "subscribe"
    /\ subscribed = FALSE
    /\ published = FALSE
    /\ channel = <<>>
    /\ comeSubList = {}
    /\ ping1stCount = 0
    /\ work1stcount = 0
    /\ sink = <<>>
    /\ tracebacks = 0
    /\ nEmitted = 0
    /\ lost = 0
    /\ pingsOf = [w \in Workers |-> 0]
    /\ worksOf = [w \in Workers |-> 0]
    /\ completed = {}
    /\ dataLog = <<>>
    /\ sawInterrupt = FALSE

\* Mutant: the subscription is not made before the directive is published.
Subscribe_Deferred ==
    /\ pc = "subscribe"
    /\ pc' = "publish"
    /\ UNCHANGED <<cvars, svars>>
    /\ UNCHANGED <<subscribed, published, channel, comeSubList, ping1stCount,
                   work1stcount, sink, tracebacks, nEmitted, lost, hist>>

\* redisChannel.subscribe(wrapMesage['tempTopic'])
Subscribe ==
    /\ pc = "subscribe"
    /\ subscribed' = TRUE
    /\ pc' = "publish"
    /\ UNCHANGED <<cvars, svars>>
    /\ UNCHANGED <<published, channel, comeSubList, ping1stCount, work1stcount,
                   sink, tracebacks, nEmitted, lost, hist>>

\* clientPub.publishToSyndicSub(...)
Publish ==
    /\ pc = "publish"
    /\ published' = TRUE
    /\ pc' = "accept"
    /\ UNCHANGED <<cvars, svars>>
    /\ UNCHANGED <<subscribed, channel, comeSubList, ping1stCount, work1stcount,
                   sink, tracebacks, nEmitted, lost, hist>>

\* comeSubList = clientPub.pullAccept(); the counters are set to 0 and the
\* listen loop is entered.
PullAccept ==
    /\ pc = "accept"
    /\ \E acc \in SUBSET Workers : comeSubList' = acc
    /\ ping1stCount' = 0
    /\ work1stcount' = 0
    /\ pc' = "listen"
    /\ UNCHANGED <<cvars, svars>>
    /\ UNCHANGED <<subscribed, published, channel, sink, tracebacks, nEmitted,
                   lost, hist>>

\* A worker, a relay or the broker puts a message on the ephemeral topic, whose
\* name they learn from the published directive.  The broker keeps it for a
\* subscriber and drops it when there is none.
Emit ==
    /\ published
    /\ pc \in {"accept", "listen"}
    /\ nEmitted < MaxEvents
    /\ Len(channel) < MaxPending
    /\ \E m \in Messages :
         IF subscribed
         THEN channel' = Append(channel, m) /\ lost' = lost
         ELSE channel' = channel /\ lost' = lost + 1
    /\ nEmitted' = nEmitted + 1
    /\ UNCHANGED <<cvars, svars>>
    /\ UNCHANGED <<pc, subscribed, published, comeSubList, ping1stCount,
                   work1stcount, sink, tracebacks, hist>>

\* messageJson['type'] == 'message'
IsPayloadMessage(m) == m.type = "message"

\* json.loads(resultMessage) raises on data that is not JSON.
JsonLoadsRaises(m) == m.json = "invalid"

\* isinstance(callResult, dict)
IsDict(m) == m.json = "dict"

\* 'type' in callResult
HasType(m) == "type" \in m.keys

\* Mutant: the worker id is looked up only where a Ping is tested.
MissingWorkerId_Lazy(m) == "sub_ip" \notin m.keys /\ m.mtype = PING

\* messageIp = callResult['sub_ip'] raises KeyError; it is read before the
\* type is looked at.
MissingWorkerId(m) == "sub_ip" \notin m.keys

\* Mutant: a Ping is counted whoever sent it.
CountsPing_Anyone(m) == m.mtype = PING

\* Mutant: a worker's Ping is counted once.
CountsPing_Dedup(m) ==
    m.mtype = PING /\ m.sub_ip \in comeSubList /\ pingsOf[m.sub_ip] = 0

\* messageType == MessageType.PING and messageIp in comeSubList
CountsPing(m) == m.mtype = PING /\ m.sub_ip \in comeSubList

\* Mutant: an Interrupt is not counted.
CountsWork_WorkOnly(m) == m.mtype = WORK

\* messageType == MessageType.WORK or messageType == MessageType.INTERRUPT
CountsWork(m) == m.mtype = WORK \/ m.mtype = INTERRUPT

\* Mutant: the two tallies are compared with each other only.
ExitCheck_NoLen(p, w) == p = w

\* Mutant: the Work tally alone is compared with the number of acceptors.
ExitCheck_NoPing(p, w) == w = Cardinality(comeSubList)

\* Mutant: the Ping tally alone is compared with the number of acceptors.
ExitCheck_PingLen(p, w) == p = Cardinality(comeSubList)

\* ping1stCount == work1stcount and work1stcount == len(comeSubList)
ExitCheck(p, w) == p = w /\ w = Cardinality(comeSubList)

\* cp_result = callResult['cp_result'] raises KeyError
MissingResult(m) == "cp_result" \notin m.keys

\* Mutant: the cp_result is displayed whatever it is.
Displayed_Always(m) == TRUE

\* if cp_result:
Displayed(m) == m.cp_result # NullResult

\* The branch of the loop body that message m takes.
Branch(m) ==
    IF ~IsPayloadMessage(m) THEN "skip"
    ELSE IF JsonLoadsRaises(m) THEN "traceback"
    ELSE IF ~IsDict(m) THEN "pass"
    ELSE IF HasType(m) THEN
        IF MissingWorkerId(m) THEN "traceback"
        ELSE IF CountsPing(m) THEN "ping"
        ELSE IF CountsWork(m) THEN "work"
        ELSE "invalid"
    ELSE
        IF MissingResult(m) THEN "traceback"
        ELSE IF Displayed(m) THEN "display"
        ELSE "filtered"

\* History of what was consumed, read off the message alone.
Record(m) ==
    /\ pingsOf' = IF m \in ControlEvents /\ m.mtype = PING
                  THEN [pingsOf EXCEPT ![m.sub_ip] = @ + 1] ELSE pingsOf
    /\ worksOf' = IF m \in ControlEvents /\ m.mtype \in {WORK, INTERRUPT}
                  THEN [worksOf EXCEPT ![m.sub_ip] = @ + 1] ELSE worksOf
    /\ completed' = IF /\ m \in ControlEvents
                       /\ m.mtype \in {WORK, INTERRUPT}
                       /\ pingsOf[m.sub_ip] > 0
                    THEN completed \cup {m.sub_ip} ELSE completed
    /\ dataLog' = IF m \in {Data(r) : r \in Payloads}
                  THEN Append(dataLog, m.cp_result) ELSE dataLog
    /\ sawInterrupt' = (sawInterrupt \/ (m \in ControlEvents /\ m.mtype = INTERRUPT))

\* One iteration of "for message in redisChannel.listen()".
Consume ==
    /\ pc = "listen"
    /\ channel # <<>>
    /\ LET m == Head(channel)
           b == Branch(m)
       IN /\ channel' = Tail(channel)
          /\ ping1stCount' = IF b = "ping" THEN ping1stCount + 1 ELSE ping1stCount
          /\ work1stcount' = IF b = "work" THEN work1stcount + 1 ELSE work1stcount
          /\ pc' = IF b = "work" /\ ExitCheck(ping1stCount, work1stcount + 1)
                   THEN "done" ELSE "listen"
          /\ sink' = IF b = "display" THEN Append(sink, m.cp_result) ELSE sink
          /\ tracebacks' = IF b = "traceback" THEN tracebacks + 1 ELSE tracebacks
          /\ Record(m)
    /\ UNCHANGED <<cvars, svars>>
    /\ UNCHANGED <<subscribed, published, comeSubList, nEmitted, lost>>

(***************************************************************************)
(* The chunked transfer engine: run_chunked.                               *)
(***************************************************************************)
\* The TargetSet: what check_minions returns for tgt.
Minions == {"t1", "t2"}

\* What a worker replies to cp.recv_chunked: True, or an error.
Success == "True"
Replies == {Success, "e1", "e2"}

\* The synthetic messages of a failed publish.
PublishFailed == "Publish failed."
PublishFailedPartial == "Publish failed. File partially transferred."

\* Local paths and the destination, as sequences of path components.  /a/x
\* and /b/x have the same basename; /b/c/x/y lies two directories below /b/c.
FilePaths == {<<"a", "x">>, <<"b", "x">>, <<"a", "y">>, <<"b", "c", "x", "y">>}
\* The directories: /d, /e and /g/h have no entries; /g holds /g/h alone.
EmptyDirPaths == {<<"d">>, <<"e">>, <<"g", "h">>}
DirPaths ==
    EmptyDirPaths \cup {<<"a">>, <<"b">>, <<"b", "c">>, <<"b", "c", "x">>, <<"g">>}
\* A path that does not exist.
MissingPath == <<"m">>
\* The paths in sorted order.
PathOrder ==
    <<<<"a">>, <<"a", "x">>, <<"a", "y">>, <<"b">>, <<"b", "c">>,
      <<"b", "c", "x">>, <<"b", "c", "x", "y">>, <<"b", "x">>, <<"d">>,
      <<"e">>, <<"g">>, <<"g", "h">>, <<"m">>>>

\* The files given one by one on the command line.
SingleFiles == {<<"a", "x">>, <<"b", "x">>, <<"a", "y">>}

SrcLists ==
    {<<p>> : p \in SingleFiles}
    \cup {<<p, q>> : p \in {<<"a", "x">>}, q \in SingleFiles \ {<<"a", "x">>}}
    \cup {<<<<"d">>>>, <<<<"e">>, <<"d">>>>, <<<<"a", "x">>, <<"d">>>>}
Dests == {[path |-> <<"out">>, sep |-> TRUE], [path |-> <<"etc", "f">>, sep |-> FALSE]}
ChunkSizes == {1, 2}

\* A dict: a function on the keys set so far.
EmptyDict == <<>>
Put(d, k, v) == [x \in DOMAIN d \cup {k} |-> IF x = k THEN v ELSE d[x]]
\* d.setdefault(k, {})[k2] = v
PutIn(d, k, k2, v) ==
    Put(d, k, Put(IF k \in DOMAIN d THEN d[k] ELSE EmptyDict, k2, v))

Range(q) == {q[i] : i \in DOMAIN q}

\* What local.cmd returns: the replies of the workers that answered; none at
\* all when the publish failed.
Results == UNION {[S -> Replies] : S \in SUBSET Minions}

\* The segment that refers to the parent directory.
ParentRef == ".."

\* The path without its parent references: the place in the file system the
\* path names (os.path.normpath of an absolute path).
RECURSIVE Norm(_)
Norm(path) ==
    IF path = <<>> THEN <<>>
    ELSE LET front == Norm(SubSeq(path, 1, Len(path) - 1))
             last == path[Len(path)]
         IN IF last # ParentRef THEN Append(front, last)
            ELSE IF front = <<>> THEN <<>>
            ELSE SubSeq(front, 1, Len(front) - 1)

\* os.path.isfile, os.path.isdir
IsFile(path) == Norm(path) \in FilePaths
IsDir(path) == Norm(path) \in DirPaths

\* os.path.join(path, fn_) for each fn_ of os.listdir(path)
Listdir(path) ==
    {Append(path, q[Len(q)]) :
        q \in {r \in FilePaths \cup DirPaths :
                  /\ Len(r) = Len(Norm(path)) + 1
                  /\ SubSeq(r, 1, Len(r) - 1) = Norm(path)}}

\* Mutant: the entries of a directory are taken as they are, without
\* descending into them.
Recurse_Shallow(path) ==
    IF ~IsFile(path) /\ ~IsDir(path)
    THEN [exit |-> 42, files |-> {}, empty_dirs |-> {}]
    ELSE IF IsFile(path)
    THEN [exit |-> 0, files |-> {path}, empty_dirs |-> {}]
    ELSE [exit |-> 0,
          files |-> {q \in Listdir(path) : IsFile(q)},
          empty_dirs |-> IF Listdir(path) = {} THEN {path} ELSE {}]

\* _recurse: the files and the empty directories below path; exit is 42 when
\* os.listdir fails with ENOENT.  A regular file makes it fail with ENOTDIR.
RECURSIVE Recurse(_)
Recurse(path) ==
    IF ~IsFile(path) /\ ~IsDir(path)
    THEN [exit |-> 42, files |-> {}, empty_dirs |-> {}]
    ELSE IF IsFile(path)
    THEN [exit |-> 0, files |-> {path}, empty_dirs |-> {}]
    ELSE LET sub_paths == Listdir(path)
             rs == {Recurse(q) : q \in sub_paths}
         IN [exit |-> IF \E r \in rs : r.exit # 0 THEN 42 ELSE 0,
             files |-> UNION {r.files : r \in rs},
             empty_dirs |-> (IF sub_paths = {} THEN {path} ELSE {})
                              \cup UNION {r.empty_dirs : r \in rs}]

\* sorted(empty_dirs)
Sorted(S) == LET In(q) == q \in S IN SelectSeq(PathOrder, In)

\* _list_files
ListFiles(src) ==
    LET rs == {Recurse(src[i]) : i \in DOMAIN src}
    IN [exit |-> IF \E r \in rs : r.exit # 0 THEN 42 ELSE 0,
        files |-> UNION {r.files : r \in rs},
        empty_dirs |-> Sorted(UNION {r.empty_dirs : r \in rs})]

\* files, empty_dirs = self._list_files()
Files == ListFiles(opts.src).files
EmptyDirs == ListFiles(opts.src).empty_dirs

\* os.path.basename, os.path.join
Basename(p) == p[Len(p)]
Join(d, q) == d \o q

\* Mutant: the empty directories do not make dest a directory.
DestIsDir_FilesOnly == Cardinality(Files) > 1 \/ opts.dest.sep

\* dest_is_dir: an empty directory, more than one file, or dest ends in a
\* separator.
DestIsDir == EmptyDirs # <<>> \/ Cardinality(Files) > 1 \/ opts.dest.sep

\* The number of leading segments p and q have in common.
RECURSIVE CommonLen(_, _)
CommonLen(p, q) ==
    IF p = <<>> \/ q = <<>> \/ Head(p) # Head(q) THEN 0
    ELSE 1 + CommonLen(Tail(p), Tail(q))

\* os.path.relpath(fn_, path + os.sep): from the place path names, one parent
\* reference for each segment of it that fn_ does not share, then what is left
\* of fn_; "." when they name the same place.
Relpath(f, path) ==
    LET P == Norm(path)
        F == Norm(f)
        k == CommonLen(P, F)
        rel == [i \in 1..(Len(P) - k) |-> ParentRef] \o SubSeq(F, k + 1, Len(F))
    IN IF rel = <<>> THEN <<".">> ELSE rel

\* relpath.startswith(parent), with parent = '..' + os.sep
StartsWithParent(rel) == Len(rel) > 1 /\ rel[1] = ParentRef

\* return None ("Should not happen")
None == <<>>

\* _get_remote_path: for a filename explicitly passed on the command line,
\* dest or dest joined with its basename; for any other, the first source it
\* lies within gives dest joined with that source's basename and the path
\* relative to it.
GetRemotePath(f) ==
    IF f \in Range(opts.src)
    THEN IF DestIsDir THEN Join(opts.dest.path, <<Basename(f)>>) ELSE opts.dest.path
    ELSE LET within == {i \in DOMAIN opts.src :
                           ~StartsWithParent(Relpath(f, opts.src[i]))}
         IN IF within = {} THEN None
            ELSE LET i == CHOOSE j \in within : \A l \in within : j <= l
                 IN Join(opts.dest.path,
                         <<Basename(opts.src[i])>> \o Relpath(f, opts.src[i]))

\* The size of the chunk the reader yields next: chunk_size bytes, or what is
\* left of the file.
ChunkLen ==
    IF opts.size[fn_] - offset < opts.salt_cp_chunk_size
    THEN opts.size[fn_] - offset
    ELSE opts.salt_cp_chunk_size

\* The orders in which a dict may yield its keys.
Orders(S) ==
    {q \in [1..Cardinality(S) -> S] : Range(q) = S}

\* Every chunk is sent as an append.
AppendFlag_Always(i) == TRUE

\* append = index > 1
AppendFlag(i) == i > 1

\* History: the <<worker, path>> at which r holds an outcome that is not success.
ErrorsIn(r) ==
    UNION {{<<m, q>> : q \in {x \in DOMAIN r[m] : r[m][x] # Success}} : m \in DOMAIN r}

InitChunked ==
    /\ cpc = "files"
    /\ \E src \in SrcLists, d \in Dests, c \in ChunkSizes :
         \E sz \in [ListFiles(src).files -> 0..MaxSize] :
            opts = [src |-> src, dest |-> d, salt_cp_chunk_size |-> c, size |-> sz]
    /\ todo \in Orders(Files)
    /\ todoDirs = EmptyDirs
    /\ everErr = {}
    /\ pubFailAt = EmptyDict
    /\ nReturned = 0
    /\ allOk = TRUE
    /\ unacked = {}
    /\ dirReplies = EmptyDict
    /\ spc = "started"
    /\ mode = "chunked"
    /\ tgtFile = "none"
    /\ loaded = {}
    /\ recvCalled = FALSE
    /\ exitCode = 0
    /\ fn_ = <<>>
    /\ remote_path = <<>>
    /\ index = 1
    /\ offset = 0
    /\ failed = EmptyDict
    /\ ret = EmptyDict
    /\ calls = <<>>
    /\ filesDone = 0
    /\ firstFail = EmptyDict

\* for fn_, mode in six.iteritems(files): the next file is taken up.
BeginFile ==
    /\ cpc = "files"
    /\ todo # <<>>
    /\ fn_' = Head(todo)
    /\ todo' = Tail(todo)
    /\ remote_path' = GetRemotePath(Head(todo))
    /\ index' = 1
    /\ offset' = 0
    /\ failed' = EmptyDict
    /\ firstFail' = EmptyDict
    /\ cpc' = "chunks"
    /\ UNCHANGED <<opts, ret, calls, filesDone, todoDirs, chist>>
    /\ UNCHANGED <<bvars, svars>>

\* local.cmd is called with the next chunk and the loop goes on to the chunk
\* after it without waiting for the call to return.
SendChunk_NoWait ==
    /\ cpc = "chunks"
    /\ offset < opts.size[fn_]
    /\ calls' = Append(calls, [kind |-> "chunk", fn |-> fn_,
                               remote_path |-> remote_path,
                               index |-> index, append |-> AppendFlag(index),
                               size |-> ChunkLen])
    /\ index' = index + 1
    /\ offset' = offset + ChunkLen
    /\ UNCHANGED <<cpc, opts, todo, fn_, remote_path, failed, ret,
                   filesDone, firstFail, todoDirs, chist>>
    /\ UNCHANGED <<bvars, svars>>

\* The reader yields one more chunk and local.cmd is called with it.
SendChunk ==
    /\ cpc = "chunks"
    /\ offset < opts.size[fn_]
    /\ calls' = Append(calls, [kind |-> "chunk", fn |-> fn_,
                               remote_path |-> remote_path,
                               index |-> index, append |-> AppendFlag(index),
                               size |-> ChunkLen])
    /\ cpc' = "wait"
    /\ UNCHANGED <<opts, todo, fn_, remote_path, index, offset, failed, ret,
                   filesDone, firstFail, todoDirs, chist>>
    /\ UNCHANGED <<bvars, svars>>

\* break: the chunk loop of the file is left; the rewrite of the file's
\* failures and the next file follow.
BreakTo_Return == "done"
BreakTo == "rewrite"

\* The publish failure is recorded for nobody.
RecordPublishFailure_Nothing(r) == r

\* if not result: the synthetic error is recorded for every minion.
RecordPublishFailure(r) ==
    LET msg == IF index > 1 THEN PublishFailedPartial ELSE PublishFailed
        RECURSIVE SetAll(_, _)
        SetAll(d, S) ==
            IF S = {} THEN d
            ELSE LET m == CHOOSE x \in S : TRUE
                 IN SetAll(PutIn(d, m, remote_path, msg), S \ {m})
    IN SetAll(r, Minions)

\* The replies are dropped.
RecordReplies_Nothing(r, result) == r

\* ret.setdefault(minion_id, {})[remote_path] = minion_ret, for each reply.
RecordReplies(r, result) ==
    LET RECURSIVE SetAll(_, _)
        SetAll(d, S) ==
            IF S = {} THEN d
            ELSE LET m == CHOOSE x \in S : TRUE
                 IN SetAll(PutIn(d, m, remote_path, result[m]), S \ {m})
    IN SetAll(r, DOMAIN result)

\* if minion_ret is not True and minion_id not in failed:
\*     failed[minion_id] = minion_ret
CatchFirstError(f, result) ==
    [m \in DOMAIN f \cup {x \in DOMAIN result : result[x] # Success} |->
        IF m \in DOMAIN f THEN f[m] ELSE result[m]]

\* Mutant: the first errors are not written back.
RewriteFailed_Skip(r, f) == r

\* for minion_id, msg in six.iteritems(failed): ret[minion_id][remote_path] = msg
RewriteFailed(r, f) ==
    [m \in DOMAIN r |->
        IF m \in DOMAIN f THEN Put(r[m], remote_path, f[m]) ELSE r[m]]

\* History: the first reply of each worker that is not success.
NoteFirstFail(h, result) ==
    [m \in DOMAIN h \cup {x \in DOMAIN result : result[x] # Success} |->
        IF m \in DOMAIN h THEN h[m] ELSE result[m]]

\* local.cmd returns and its result is recorded.
Reply ==
    /\ cpc = "wait"
    /\ \E result \in Results :
         /\ IF DOMAIN result = {}
            THEN /\ ret' = RecordPublishFailure(ret)
                 /\ cpc' = BreakTo
                 /\ pubFailAt' = Put(pubFailAt, fn_, index)
                 /\ UNCHANGED <<failed, index, offset, firstFail>>
            ELSE /\ ret' = RecordReplies(ret, result)
                 /\ failed' = CatchFirstError(failed, result)
                 /\ firstFail' = NoteFirstFail(firstFail, result)
                 /\ index' = index + 1
                 /\ offset' = offset + ChunkLen
                 /\ cpc' = "chunks"
                 /\ UNCHANGED pubFailAt
         /\ allOk' = (allOk /\ result \in [Minions -> {Success}])
         /\ unacked' = unacked \cup
               {<<fn_, m>> : m \in {x \in Minions : x \notin DOMAIN result
                                                   \/ result[x] # Success}}
    /\ everErr' = everErr \cup ErrorsIn(ret')
    /\ nReturned' = nReturned + 1
    /\ UNCHANGED <<opts, todo, fn_, remote_path, calls, filesDone, todoDirs,
                   dirReplies>>
    /\ UNCHANGED <<bvars, svars>>

\* The chunks of the file are exhausted, or the publish failed: the first
\* errors are written over the last results.
EndFile ==
    /\ \/ cpc = "chunks" /\ offset >= opts.size[fn_]
       \/ cpc = "rewrite"
    /\ ret' = RewriteFailed(ret, failed)
    /\ filesDone' = filesDone + 1
    /\ cpc' = "files"
    /\ everErr' = everErr \cup ErrorsIn(ret')
    /\ UNCHANGED <<opts, todo, fn_, remote_path, index, offset, failed, calls,
                   firstFail, todoDirs, pubFailAt, nReturned, allOk, unacked,
                   dirReplies>>
    /\ UNCHANGED <<bvars, svars>>

\* The loop over the files is over.
FilesOver == (cpc = "files" /\ todo = <<>>) \/ cpc = "dirs"

\* Mutant: the directory is sent like the chunk of a file.
DirArgs_Chunk(dirname) ==
    [kind |-> "dir", fn |-> dirname, remote_path |-> GetRemotePath(dirname),
     index |-> 1, append |-> FALSE, size |-> 0]

\* args = [tgt, 'cp.recv_chunked', [remote_path, None], timeout]: the remote
\* path and no chunk, append, gzip or mode.
DirArgs(dirname) ==
    [kind |-> "dir", fn |-> dirname, remote_path |-> GetRemotePath(dirname)]

\* for dirname in empty_dirs: local.cmd is called with [remote_path, None].
DirCall ==
    /\ FilesOver
    /\ todoDirs # <<>>
    /\ remote_path' = GetRemotePath(Head(todoDirs))
    /\ calls' = Append(calls, DirArgs(Head(todoDirs)))
    /\ cpc' = "dirwait"
    /\ UNCHANGED <<opts, todo, fn_, index, offset, failed, ret, filesDone,
                   firstFail, todoDirs, chist>>
    /\ UNCHANGED <<bvars, svars>>

\* local.cmd returns and each reply is recorded at the directory's path.
DirReply ==
    /\ cpc = "dirwait"
    /\ \E result \in Results :
         /\ ret' = RecordReplies(ret, result)
         /\ dirReplies' = Put(dirReplies, Head(todoDirs), result)
    /\ todoDirs' = Tail(todoDirs)
    /\ cpc' = "dirs"
    /\ everErr' = everErr \cup ErrorsIn(ret')
    /\ nReturned' = nReturned + 1
    /\ UNCHANGED <<opts, todo, fn_, remote_path, index, offset, failed, calls,
                   filesDone, firstFail, pubFailAt, allOk, unacked>>
    /\ UNCHANGED <<bvars, svars>>

\* return ret
Return ==
    /\ FilesOver
    /\ todoDirs = <<>>
    /\ cpc' = "done"
    /\ UNCHANGED <<opts, todo, fn_, remote_path, index, offset, failed, ret,
                   calls, filesDone, firstFail, todoDirs, chist>>
    /\ UNCHANGED <<bvars, svars>>

\* ---------------------------------------------------------------------------
\* The start of an operation: run and new_run up to the first remote call.

Modes == {"chunked", "oldstyle", "barrier"}

\* What the file named by tgt holds when file_target is set: nothing, a list
\* with commas, a list with newlines, one name; or it cannot be read.
TargetFiles == {"none", "empty", "comma", "newline", "single", "ioerror"}

\* opts['src'] at the start: a file, an empty directory, a missing path.
StartPaths == {<<"a", "x">>, <<"d">>, MissingPath}
StartSrcLists ==
    {<<q>> : q \in StartPaths}
    \cup {qr \in StartPaths \X StartPaths : qr[1] # qr[2]}

\* Mutant: a directory among the sources is passed over.
LoadResult_SkipDirs(src) ==
    [exit |-> 0, files |-> {src[i] : i \in {j \in DOMAIN src : IsFile(src[j])}}]

\* _load_files: the files loaded, and exit 1 at the first directory.  A path
\* that is neither a file nor a directory is passed over.
LoadResult(src) ==
    LET RECURSIVE LoadFrom(_, _)
        LoadFrom(rest, files) ==
            IF rest = <<>> THEN [exit |-> 0, files |-> files]
            ELSE IF IsFile(Head(rest))
            THEN LoadFrom(Tail(rest), files \cup {Head(rest)})
            ELSE IF IsDir(Head(rest))
            THEN [exit |-> 1, files |-> files]
            ELSE LoadFrom(Tail(rest), files)
    IN LoadFrom(src, {})

InitStart ==
    /\ mode \in Modes
    /\ spc = IF mode = "chunked" THEN "list" ELSE "load"
    /\ tgtFile \in IF mode = "barrier" THEN TargetFiles ELSE {"none"}
    /\ \E src \in StartSrcLists :
         opts = [src |-> src, dest |-> [path |-> <<"out">>, sep |-> TRUE],
                 salt_cp_chunk_size |-> 1,
                 size |-> [f \in ListFiles(src).files |-> 1]]
    /\ loaded = {}
    /\ recvCalled = FALSE
    /\ exitCode = 0

\* files, empty_dirs = self._list_files(), at the head of run_chunked:
\* sys.exit(42) for a path that does not exist.
ListFilesStep ==
    /\ spc = "list"
    /\ IF ListFiles(opts.src).exit # 0
       THEN /\ spc' = "exit"
            /\ exitCode' = ListFiles(opts.src).exit
            /\ UNCHANGED <<cpc, todo, todoDirs>>
       ELSE /\ spc' = "started"
            /\ cpc' = "files"
            /\ todo' \in Orders(Files)
            /\ todoDirs' = EmptyDirs
            /\ UNCHANGED exitCode
    /\ UNCHANGED <<opts, fn_, remote_path, index, offset, failed, ret, calls,
                   filesDone, firstFail, chist>>
    /\ UNCHANGED <<mode, tgtFile, loaded, recvCalled>>
    /\ UNCHANGED bvars

\* arg = [self._load_files(), self.opts['dest']], at the head of run_oldstyle
\* and of run_oldstyle_v1.
LoadFiles ==
    /\ spc = "load"
    /\ loaded' = LoadResult(opts.src).files
    /\ IF LoadResult(opts.src).exit # 0
       THEN /\ spc' = "exit"
            /\ exitCode' = LoadResult(opts.src).exit
       ELSE /\ spc' = IF mode = "barrier" THEN "targets" ELSE "call"
            /\ UNCHANGED exitCode
    /\ UNCHANGED <<mode, tgtFile, recvCalled>>
    /\ UNCHANGED <<bvars, cvars>>

\* run_oldstyle: return local.cmd(tgt, 'cp.recv', arg, timeout)
OldstyleCall ==
    /\ spc = "call"
    /\ recvCalled' = TRUE
    /\ spc' = "returned"
    /\ UNCHANGED <<mode, tgtFile, loaded, exitCode>>
    /\ UNCHANGED <<bvars, cvars>>

\* if self.opts['file_target']: the list of targets is read from the file.
\* SaltCP has no method exit, so self.exit(2, ...) raises AttributeError,
\* which nothing catches: the interpreter ends with a traceback and status 1.
\* One name without comma or newline: a message is printed and the method
\* returns.
ReadTargets ==
    /\ spc = "targets"
    /\ IF tgtFile \in {"empty", "ioerror"}
       THEN /\ spc' = "raised"
            /\ exitCode' = 1
            /\ UNCHANGED pc
       ELSE IF tgtFile = "single"
       THEN /\ spc' = "returned"
            /\ UNCHANGED <<pc, exitCode>>
       ELSE /\ spc' = "started"
            /\ pc' = "subscribe"
            /\ UNCHANGED exitCode
    /\ UNCHANGED <<mode, tgtFile, loaded, recvCalled>>
    /\ UNCHANGED <<subscribed, published, channel, comeSubList, ping1stCount,
                   work1stcount, sink, tracebacks, nEmitted, lost, hist>>
    /\ UNCHANGED cvars

(***************************************************************************)
(* Specifications.                                                         *)
(***************************************************************************)
\* run_chunked is not running.
IdleEngine ==
    /\ cpc = "idle"
    /\ todo = <<>>
    /\ fn_ = <<>>
    /\ remote_path = <<>>
    /\ index = 1
    /\ offset = 0
    /\ failed = EmptyDict
    /\ ret = EmptyDict
    /\ calls = <<>>
    /\ filesDone = 0
    /\ firstFail = EmptyDict
    /\ todoDirs = <<>>
    /\ everErr = {}
    /\ pubFailAt = EmptyDict
    /\ nReturned = 0
    /\ allOk = TRUE
    /\ unacked = {}
    /\ dirReplies = EmptyDict

IdleChunked == opts = <<>> /\ IdleEngine

\* The listen phase of the barrier mode: the files are loaded and the targets
\* are known.
StartedBarrier ==
    /\ spc = "started"
    /\ mode = "barrier"
    /\ tgtFile = "none"
    /\ loaded = {}
    /\ recvCalled = FALSE
    /\ exitCode = 0

\* The barrier mode (new_run).
Init == InitBarrier /\ IdleChunked /\ StartedBarrier

Next ==
    \/ Subscribe
    \/ Publish
    \/ PullAccept
    \/ Emit
    \/ Consume

Spec == Init /\ [][Next]_vars

\* run_oldstyle_v1 is not running.
IdleBarrier ==
    /\ pc = "idle"
    /\ subscribed = FALSE
    /\ published = FALSE
    /\ channel = <<>>
    /\ comeSubList = {}
    /\ ping1stCount = 0
    /\ work1stcount = 0
    /\ sink = <<>>
    /\ tracebacks = 0
    /\ nEmitted = 0
    /\ lost = 0
    /\ pingsOf = [w \in Workers |-> 0]
    /\ worksOf = [w \in Workers |-> 0]
    /\ completed = {}
    /\ dataLog = <<>>
    /\ sawInterrupt = FALSE

\* The chunked mode (run, with opts['chunked']).
InitC == IdleBarrier /\ InitChunked

NextC ==
    \/ BeginFile
    \/ SendChunk
    \/ Reply
    \/ EndFile
    \/ DirCall
    \/ DirReply
    \/ Return

SpecChunked == InitC /\ [][NextC]_vars

\* The start of an operation in each mode (SaltCPCli.run: new_run or run), up
\* to the listen loop of the barrier and through the chunked engine.
InitS == IdleBarrier /\ IdleEngine /\ InitStart

NextS ==
    \/ ListFilesStep
    \/ LoadFiles
    \/ OldstyleCall
    \/ ReadTargets
    \/ Subscribe
    \/ Publish
    \/ PullAccept
    \/ NextC

SpecStart == InitS /\ [][NextS]_vars

\* opts['src'] with directories: trees below /a, /b, /b/c and /g, a root named
\* through a parent reference (/b/c/x/..), roots inside one another, a file
\* given together with its directory, and two files with one basename.
PathSrcLists ==
    {<<<<"a">>>>, <<<<"b">>>>, <<<<"b", "c">>>>, <<<<"g">>>>, <<<<"a", "x">>>>,
     <<<<"b", "c", "x", ParentRef>>>>,
     <<<<"a">>, <<"b", "c">>>>,
     <<<<"b", "c">>, <<"b">>>>,
     <<<<"b">>, <<"b", "c">>>>,
     <<<<"a", "x">>, <<"a">>>>,
     <<<<"a", "x">>, <<"b", "x">>>>,
     <<<<"g">>, <<"d">>>>,
     <<<<"e">>, <<"b", "c">>>>}

\* The size of the files of the trees: /b/c/x/y holds one byte, the others
\* none.
TreeSize(f) == IF Norm(f) = <<"b", "c", "x", "y">> THEN 1 ELSE 0

\* The chunked mode on directory trees.
InitPaths ==
    /\ spc = "list"
    /\ mode = "chunked"
    /\ tgtFile = "none"
    /\ \E src \in PathSrcLists, d \in Dests :
         opts = [src |-> src, dest |-> d, salt_cp_chunk_size |-> 1,
                 size |-> [f \in ListFiles(src).files |-> TreeSize(f)]]
    /\ loaded = {}
    /\ recvCalled = FALSE
    /\ exitCode = 0

InitP == IdleBarrier /\ IdleEngine /\ InitPaths

NextP ==
    \/ ListFilesStep
    \/ NextC

SpecPaths == InitP /\ [][NextP]_vars

(***************************************************************************)
(* Properties of the barrier.                                              *)
(***************************************************************************)
RECURSIVE SumOver(_, _)
SumOver(S, f) ==
    IF S = {} THEN 0
    ELSE LET x == CHOOSE y \in S : TRUE IN f[x] + SumOver(S \ {x}, f)

Listening == pc \in {"listen", "done"}

\* The terminal condition of the barrier state.
Terminal ==
    ping1stCount = work1stcount /\ work1stcount = Cardinality(comeSubList)

\* A step of the listen loop that consumes the head of the subscription.
Consumes == pc = "listen" /\ channel # <<>> /\ channel' = Tail(channel)

\* The run so far is well behaved: each accepted worker had at most one Ping
\* and, after it, at most one Work or Interrupt consumed, and no other worker
\* had a control event consumed.
WellBehaved ==
    \A w \in Workers :
        IF w \in comeSubList
        THEN /\ pingsOf[w] <= 1
             /\ worksOf[w] <= 1
             /\ (worksOf[w] = 1 => w \in completed)
        ELSE pingsOf[w] = 0 /\ worksOf[w] = 0

\* C1: in a well-behaved run with a non-empty acceptedSet the loop has exited
\* exactly when the Work/Interrupt of every accepted worker has been consumed:
\* it exits at the last of them and at no earlier event.
C1_ExitAtLastWork ==
    (Listening /\ comeSubList # {} /\ WellBehaved)
        => (pc = "done" <=> \A w \in comeSubList : worksOf[w] = 1)

C1_Witness ==
    pc = "done" /\ comeSubList = {"w1", "w2"} /\ WellBehaved

\* C2: whenever the listen loop has exited, pingCount = workCount and
\* workCount = |acceptedSet|.
C2_ExitSafety ==
    pc = "done" =>
        /\ ping1stCount = work1stcount
        /\ work1stcount = Cardinality(comeSubList)

C2_Witness == pc = "done" /\ ~WellBehaved

\* C3 (as claimed): whenever consuming an event establishes
\* pingCount = workCount = |acceptedSet|, the loop exits at that event,
\* whichever kind of event established it.
C3_ExitWhenTerminal ==
    [][(Consumes /\ ~Terminal /\ Terminal') => pc' = "done"]_vars

\* C4 (as claimed): when the loop has exited, every accepted worker has had a
\* Ping consumed and, after it, a Work or Interrupt consumed.
C4_AllParticipated == pc = "done" => comeSubList \subseteq completed

\* C5 (as claimed): a control event of a worker that is not in acceptedSet
\* changes neither counter and does not make the loop exit.
C5_OutsidersIgnored ==
    [][(/\ Consumes
        /\ Head(channel) \in ControlEvents
        /\ Head(channel).sub_ip \notin comeSubList)
           => (UNCHANGED <<ping1stCount, work1stcount>> /\ pc' = "listen")]_vars

\* C6: Pings are counted without de-duplication: pingCount is the number of
\* Pings consumed from accepted workers, each repeat counted again (and
\* workCount the number of Work/Interrupt events consumed), so Ping(w1),
\* Ping(w1), Work(w1) with acceptedSet = {w1} gives 2 and 1; and once pingCount
\* exceeds |acceptedSet| it exceeds it for ever and the loop never exits.
C6_DuplicatePings ==
    /\ [](Listening =>
            /\ ping1stCount = SumOver(comeSubList, pingsOf)
            /\ work1stcount = SumOver(Workers, worksOf))
    /\ [][(pc = "listen" /\ ping1stCount > Cardinality(comeSubList))
            => (pc' = "listen" /\ ping1stCount' > Cardinality(comeSubList'))]_vars

C6_Witness ==
    /\ pc = "listen"
    /\ comeSubList = {"w1"}
    /\ pingsOf = [w \in Workers |-> IF w = "w1" THEN 2 ELSE 0]
    /\ worksOf = [w \in Workers |-> IF w = "w1" THEN 1 ELSE 0]
    /\ ping1stCount = 2
    /\ work1stcount = 1

\* Messages that cannot be parsed or have an unexpected shape.
MalformedMessages == {NotJson, NonDict, CtrlNoIp(PING), CtrlNoIp(WORK), DataNoKey}

\* C7: consuming a malformed message changes neither counter, nor acceptedSet,
\* nor the output, and the loop goes on listening; what later events do depends
\* on these alone.
C7_MalformedSkipped ==
    [][(Consumes /\ Head(channel) \in MalformedMessages)
          => UNCHANGED <<ping1stCount, work1stcount, comeSubList, sink, pc>>]_vars

C7_Witness == tracebacks > 0 /\ pc = "done"

\* C8: the topic is subscribed before the directive is published, the
\* directive is published before the acceptance step, nothing is consumed
\* before acceptedSet is known, and no message put on the topic is lost: each
\* is buffered in the subscription or has been consumed.
C8_PhaseOrder ==
    /\ published => subscribed
    /\ pc \in {"accept", "listen", "done"} => published
    /\ (nEmitted - lost > Len(channel) \/ ping1stCount + work1stcount > 0)
          => Listening
    /\ lost = 0

C8_Witness == pc = "accept" /\ Len(channel) = MaxPending

\* C9 (as claimed): every data event consumed is forwarded to the output, in
\* arrival order.
C9_EveryDataEventForwarded == sink = dataLog

IsResult(r) == r # NullResult

\* C9 (amended): the output is, at every step, the sequence of the non-empty
\* cp_results of the data events consumed so far, in arrival order; a data
\* event whose cp_result is empty is not forwarded.
C9_NonEmptyResultsForwarded == sink = SelectSeq(dataLog, IsResult)

C9_Witness ==
    /\ pc = "listen"
    /\ Len(sink) = 2
    /\ sink[1] # sink[2]
    /\ Len(dataLog) > Len(sink)

(***************************************************************************)
(* Properties of the chunked transfer engine.                              *)
(***************************************************************************)
\* Processing of file fn_ has just finished.
FileFinished == cpc = "files" /\ filesDone > 0

\* C10: when processing of a file finishes, every worker that answered some
\* chunk of it with a reply other than success has, at the file's remote path,
\* its reply to the lowest-indexed such chunk, whatever it answered later and
\* whether or not a later publish failed.
C10_StickyFirstFailure ==
    FileFinished =>
        \A w \in DOMAIN firstFail :
            /\ w \in DOMAIN ret
            /\ remote_path \in DOMAIN ret[w]
            /\ ret[w][remote_path] = firstFail[w]

\* Worker t1 failed with e1 in one of the first two chunks of a file and the
\* publish of the third chunk failed.
C10_Witness ==
    /\ FileFinished
    /\ Len(calls) = 3
    /\ \A i \in 1..3 : calls[i].fn = fn_
    /\ index = 3
    /\ "t1" \in DOMAIN firstFail
    /\ firstFail["t1"] = "e1"
    /\ "t2" \in DOMAIN ret
    /\ ret["t2"][remote_path] = PublishFailedPartial

\* run_chunked has returned ret.
Returned == cpc = "done"

\* C11 (as stated): in the returned result, every <<worker, remote path>> for
\* which an error was recorded at any point of the operation holds an error; no
\* later success for the same remote path, from this file or a later one,
\* overwrites it.
C11_ErrorsSticky ==
    Returned =>
        \A wp \in everErr :
            /\ wp[1] \in DOMAIN ret
            /\ wp[2] \in DOMAIN ret[wp[1]]
            /\ ret[wp[1]][wp[2]] # Success

\* The chunk calls issued for file f, in order.
ChunkCalls(f) ==
    LET Of(c) == c.kind = "chunk" /\ c.fn = f IN SelectSeq(calls, Of)

\* C12: when the call for chunk i of a file returns no replies, no chunk of
\* that file with an index above i is ever sent, and when the file finishes
\* every member of the target set has an outcome other than success at the
\* file's remote path; the synthetic message, which a member without an
\* earlier failure of its own holds, says partial transfer exactly when i > 1.
C12_PublishFailure ==
    /\ \A f \in DOMAIN pubFailAt :
          \A k \in DOMAIN ChunkCalls(f) : ChunkCalls(f)[k].index <= pubFailAt[f]
    /\ (FileFinished /\ fn_ \in DOMAIN pubFailAt) =>
          \A m \in Minions :
              /\ m \in DOMAIN ret
              /\ remote_path \in DOMAIN ret[m]
              /\ ret[m][remote_path] # Success
              /\ m \notin DOMAIN firstFail =>
                    ret[m][remote_path] =
                        IF pubFailAt[fn_] > 1 THEN PublishFailedPartial
                        ELSE PublishFailed

\* The publish of the second chunk of a three-chunk file failed; the file is
\* finished, a later file was sent, and no third chunk of the first was.
C12_Witness ==
    /\ Returned
    /\ \E f \in DOMAIN pubFailAt :
          /\ pubFailAt[f] = 2
          /\ opts.size[f] = 3
          /\ opts.salt_cp_chunk_size = 1
          /\ Len(ChunkCalls(f)) = 2
          /\ \E g \in Files \ {f} : Len(ChunkCalls(g)) > 0 /\ fn_ = g
          /\ \A m \in Minions :
                ret[m][GetRemotePath(f)] = PublishFailedPartial

\* The create-directory calls issued for directory d.
DirCalls(d) ==
    LET Of(c) == c.kind = "dir" /\ c.fn = d IN SelectSeq(calls, Of)

\* Some reply recorded in the operation was not success, or a publish failed.
SomethingFailed == everErr # {}

\* C13: a failed publish or a reply other than success never aborts the
\* engine: it always has a next step until it returns the result, and when it
\* returns, chunk 1 of every non-empty file and one create-directory call for
\* every empty directory have been issued.
C13_SoftFailure ==
    /\ ~Returned => ENABLED NextC
    /\ exitCode = 0
    /\ Returned =>
          /\ \A f \in Files :
                opts.size[f] > 0 =>
                    /\ Len(ChunkCalls(f)) > 0
                    /\ ChunkCalls(f)[1].index = 1
          /\ \A k \in DOMAIN EmptyDirs : Len(DirCalls(EmptyDirs[k])) = 1

\* The publish of the first chunk of the first file failed, the second file
\* was sent all the same, a target failed on it, and the engine returned.
C13_Witness ==
    /\ Returned
    /\ Len(calls) = 3
    /\ calls[1].fn \in DOMAIN pubFailAt
    /\ calls[2].fn # calls[1].fn
    /\ calls[2].index = 1
    /\ calls[3].index = 2
    /\ <<"t1", calls[2].remote_path>> \in everErr
    /\ ret["t2"][calls[2].remote_path] = Success

\* ceil(S / C)
Ceil(S, C) == (S + C - 1) \div C

\* C14: for a file of size S and chunk size C the calls issued carry the
\* indices 1, 2, ... in this order, append is index > 1 (false for the first
\* call only), the payload is C bytes for every chunk but the last and
\* S - (N-1)*C for the last, where N = ceil(S/C); and when no publish of the
\* file failed, exactly N calls have been issued for it when the engine returns.
C14_ChunkSequence ==
    \A f \in Files :
        LET cs == ChunkCalls(f)
            S == opts.size[f]
            C == opts.salt_cp_chunk_size
            N == Ceil(S, C)
        IN /\ \A k \in DOMAIN cs :
                 /\ k <= N
                 /\ cs[k].index = k
                 /\ cs[k].append = (k > 1)
                 /\ cs[k].size = IF k < N THEN C ELSE S - (N - 1) * C
           /\ (Returned /\ f \notin DOMAIN pubFailAt) => Len(cs) = N

\* A file of 3 bytes was sent with chunk size 2, without a publish failure, as
\* two calls of 2 bytes and 1 byte, the second of them an append.
C14_Witness ==
    /\ Returned
    /\ pubFailAt = EmptyDict
    /\ opts.salt_cp_chunk_size = 2
    /\ \E f \in Files :
          /\ opts.size[f] = 3
          /\ Len(ChunkCalls(f)) = 2
          /\ ChunkCalls(f)[1].size = 2 /\ ~ChunkCalls(f)[1].append
          /\ ChunkCalls(f)[2].size = 1 /\ ChunkCalls(f)[2].append

\* The calls that have not returned.
Outstanding == Len(calls) - nReturned

\* The files whose loop body was entered.
FilesStarted == Cardinality(Files) - Len(todo)

\* A call is issued in this step.
Issues == Len(calls') = Len(calls) + 1

\* C15: at most one call is outstanding at any time; a call is issued only
\* when every earlier call has returned; the call for chunk i+1 of a file
\* follows the call for chunk i of the same file; and when the first call of
\* a file is issued, the rewrite of every file started before it is done.
C15_SequentialDispatch ==
    /\ [](Outstanding \in {0, 1})
    /\ [][Issues =>
            LET c == calls'[Len(calls')] IN
            /\ Outstanding = 0
            /\ c.kind = "chunk" =>
                  /\ filesDone = FilesStarted - 1
                  /\ c.index > 1 =>
                        /\ calls[Len(calls)].kind = "chunk"
                        /\ calls[Len(calls)].fn = c.fn
                        /\ calls[Len(calls)].index = c.index - 1
            /\ c.kind = "dir" => filesDone = Cardinality(Files)]_vars

\* The second chunk of the second file is in flight: three calls have
\* returned and the first file was rewritten.
C15_Witness ==
    /\ cpc = "wait"
    /\ Outstanding = 1
    /\ nReturned = 3
    /\ filesDone = 1
    /\ calls[4].index = 2
    /\ calls[3].fn = calls[4].fn
    /\ calls[2].fn # calls[4].fn

\* The files of which at least one chunk was sent.
Transferred == {f \in Files : Len(ChunkCalls(f)) > 0}

\* No publish failed and every target replied success to every chunk call.
AllSuccess == allOk /\ pubFailAt = EmptyDict

\* Every target has success at the remote path of every transferred file.
SuccessEverywhere ==
    \A m \in Minions, f \in Transferred :
        /\ m \in DOMAIN ret
        /\ GetRemotePath(f) \in DOMAIN ret[m]
        /\ ret[m][GetRemotePath(f)] = Success

NothingIssued ==
    /\ calls = <<>>
    /\ ~recvCalled
    /\ ~subscribed
    /\ ~published

\* The sources have been looked at (_list_files or _load_files has run).
SourcesRead == spc \notin {"list", "load"}

\* Some top-level source path does not exist.
HasMissing == \E i \in DOMAIN opts.src : ~IsFile(opts.src[i]) /\ ~IsDir(opts.src[i])

\* Some top-level source path is a directory.
HasDir == \E i \in DOMAIN opts.src : IsDir(opts.src[i])

\* C17 (as stated): in every mode, when a top-level source path does not
\* exist, whatever its position, the operation aborts with exit code 42
\* before any remote call, subscription or publish, and returns nothing.
C17_MissingSourceFatal ==
    HasMissing =>
        /\ NothingIssued
        /\ ret = EmptyDict
        /\ SourcesRead => (spc = "exit" /\ exitCode = 42)

\* The part of C17 that holds: the chunked mode.
C17_MissingSourceFatalChunked ==
    (HasMissing /\ mode = "chunked") =>
        /\ NothingIssued
        /\ ret = EmptyDict
        /\ SourcesRead => (spc = "exit" /\ exitCode = 42)

\* C18: without the chunked mode, when a source path is a directory the
\* operation aborts with exit code 1 and no remote call, subscription or
\* publish has been issued, also when files listed before the directory were
\* loaded.
C18_DirectoryFatal ==
    (HasDir /\ mode # "chunked") =>
        /\ NothingIssued
        /\ SourcesRead => (spc = "exit" /\ exitCode = 1)

\* The barrier mode loaded /a/x, met the directory /d and exited with 1.
C18_Witness ==
    /\ mode = "barrier"
    /\ opts.src = <<<<"a", "x">>, <<"d">>>>
    /\ loaded = {<<"a", "x">>}
    /\ spc = "exit"
    /\ exitCode = 1
    /\ NothingIssued

\* The barrier mode has read, or tried to read, the target-list file.
TargetsRead ==
    /\ mode = "barrier"
    /\ LoadResult(opts.src).exit = 0
    /\ spc \notin {"load", "targets"}

\* C19 (as stated): in the barrier mode an empty target-list file aborts the
\* operation with exit code 42 and an I/O error reading it with exit code 2,
\* and in both cases nothing was subscribed or published.
C19_TargetFileErrors ==
    /\ (TargetsRead /\ tgtFile = "empty") =>
          (spc = "exit" /\ exitCode = 42 /\ ~subscribed /\ ~published)
    /\ (TargetsRead /\ tgtFile = "ioerror") =>
          (spc = "exit" /\ exitCode = 2 /\ ~subscribed /\ ~published)

\* The part of C19 that holds: the operation ends and nothing was subscribed
\* or published.
C19_NothingSubscribed ==
    (TargetsRead /\ tgtFile \in {"empty", "ioerror"}) =>
        (spc = "raised" /\ pc = "idle" /\ ~subscribed /\ ~published)

\* So far every accepted worker had at most one Ping and at most one Work or
\* Interrupt consumed, and no other worker had a control event consumed.
AtMostOnce ==
    \A w \in Workers :
        IF w \in comeSubList
        THEN pingsOf[w] <= 1 /\ worksOf[w] <= 1
        ELSE pingsOf[w] = 0 /\ worksOf[w] = 0

\* C20: as long as some accepted worker has had no Work or Interrupt consumed,
\* while every other accepted worker had at most one Ping and one Work or
\* Interrupt and no other worker any control event, the listen loop has not
\* exited, whatever data events and malformed messages were consumed.
C20_BlockedWithoutWork ==
    (Listening /\ AtMostOnce /\ \E w \in comeSubList : worksOf[w] = 0)
        => pc = "listen"

\* Both workers are accepted; w1 sent its Ping and its Work, w2 sent no Work; a
\* data event and a malformed message were consumed, and the loop listens.
C20_Witness ==
    /\ pc = "listen"
    /\ comeSubList = Workers
    /\ pingsOf["w1"] = 1
    /\ worksOf["w1"] = 1
    /\ worksOf["w2"] = 0
    /\ Len(dataLog) >= 1
    /\ tracebacks >= 1
    /\ channel = <<>>
    /\ nEmitted = MaxEvents

\* remote_path holds what _get_remote_path gave for the path in hand.
Resolved == cpc \in {"chunks", "wait", "rewrite", "dirwait"}

\* The path in hand: the file being sent, or the directory being created.
CurrentPath == IF cpc = "dirwait" THEN Head(todoDirs) ELSE fn_

\* The path in hand is one of the source arguments.
Explicit == CurrentPath \in Range(opts.src)

\* C21: dest counts as a directory exactly when more than one file or at
\* least one empty directory is collected or dest ends in a separator; the
\* inputs of this value never change during the operation; and a path that is
\* itself a source argument resolves to dest joined with its basename when
\* dest counts as a directory and to dest itself otherwise.
C21_DestIsDirExplicit ==
    /\ [](DestIsDir <=> (\/ Cardinality(Files) > 1
                         \/ Len(EmptyDirs) >= 1
                         \/ opts.dest.sep))
    /\ []((Resolved /\ Explicit) =>
            remote_path =
                IF \/ Cardinality(Files) > 1
                   \/ Len(EmptyDirs) >= 1
                   \/ opts.dest.sep
                THEN opts.dest.path \o <<CurrentPath[Len(CurrentPath)]>>
                ELSE opts.dest.path)
    /\ [][opts' = opts]_vars

\* The source /d, an empty directory listed after /g, was resolved to
\* /etc/f/d although dest /etc/f has no trailing separator and no file is
\* collected.
C21_Witness ==
    /\ Resolved
    /\ Explicit
    /\ ~opts.dest.sep
    /\ CurrentPath = <<"d">>
    /\ Files = {}
    /\ remote_path = <<"etc", "f", "d">>

\* p is a leading part of q.
IsPrefix(p, q) == Len(p) <= Len(q) /\ SubSeq(q, 1, Len(p)) = p

\* The source root r contains the place that path names.
Contains(r, path) == IsPrefix(Norm(r), Norm(path))

\* relative(path, r) for a root r that contains path.
Below(r, path) == SubSeq(Norm(path), Len(Norm(r)) + 1, Len(Norm(path)))

\* The path in hand resolved through some root that contains it.
NestedRule ==
    \E i \in DOMAIN opts.src :
        /\ Contains(opts.src[i], CurrentPath)
        /\ remote_path =
              opts.dest.path \o <<opts.src[i][Len(opts.src[i])]>>
                  \o Below(opts.src[i], CurrentPath)

\* The place a remote path names lies under dest.
UnderDest(rp) == IsPrefix(opts.dest.path, Norm(rp))

\* C22 (as stated): a collected path that is not a source argument resolves
\* to dest joined with the basename of a source root that contains it and the
\* path relative to that root; every remote path sent to the workers lies
\* under dest, and no call carries an unresolved remote path.
C22_NestedResolution ==
    /\ (Resolved /\ ~Explicit) => NestedRule
    /\ \A k \in DOMAIN calls :
          /\ calls[k].remote_path # None
          /\ UnderDest(calls[k].remote_path)

\* The part of C22 that holds: the rule of resolution, and no unresolved
\* remote path in any call.
C22_NestedRuleOnly ==
    /\ (Resolved /\ ~Explicit) => NestedRule
    /\ \A k \in DOMAIN calls : calls[k].remote_path # None

\* The part of C22 that holds when no source root is named through a parent
\* reference: every remote path sent lies under dest.
C22_UnderDestPlainRoots ==
    (\A i \in DOMAIN opts.src : opts.src[i][Len(opts.src[i])] # ParentRef) =>
        \A k \in DOMAIN calls : UnderDest(calls[k].remote_path)

\* The path as given that names place q below the source argument r.
Through(r, q) == r \o SubSeq(q, Len(Norm(r)) + 1, Len(q))

\* The regular files reachable from the source paths.
ReachableFiles ==
    UNION {{Through(opts.src[i], q) :
               q \in {f \in FilePaths : IsPrefix(Norm(opts.src[i]), f)}} :
           i \in DOMAIN opts.src}

\* The directories of the file system that have no entry.
ZeroEntries ==
    {q \in DirPaths :
        ~\E r \in FilePaths \cup DirPaths : Len(r) > Len(q) /\ IsPrefix(q, r)}

\* The reachable directories that have no entry.
ReachableEmptyDirs ==
    UNION {{Through(opts.src[i], q) :
               q \in {z \in ZeroEntries : IsPrefix(Norm(opts.src[i]), z)}} :
           i \in DOMAIN opts.src}

\* The order of path strings: segment by segment, a leading part first.
SegOrder == <<ParentRef, "a", "b", "c", "d", "e", "g", "h", "m", "x", "y">>
Rank(seg) == CHOOSE i \in DOMAIN SegOrder : SegOrder[i] = seg
RECURSIVE PathLess(_, _)
PathLess(p, q) ==
    IF q = <<>> THEN FALSE
    ELSE IF p = <<>> THEN TRUE
    ELSE IF Head(p) # Head(q) THEN Rank(Head(p)) < Rank(Head(q))
    ELSE PathLess(Tail(p), Tail(q))

\* _list_files has just returned.
Collected == spc = "started" /\ cpc = "files" /\ filesDone = 0 /\ calls = <<>>

\* C23: the collector yields exactly the regular files reachable from the
\* source paths, each once, and exactly the reachable directories without
\* entries, each once and in sorted order; a directory that holds only empty
\* subdirectories, and any ancestor of an empty directory, is not listed.
C23_PathCollector ==
    Collected =>
        /\ Range(todo) = ReachableFiles
        /\ Len(todo) = Cardinality(ReachableFiles)
        /\ Range(todoDirs) = ReachableEmptyDirs
        /\ \A i, j \in DOMAIN todoDirs : i < j => PathLess(todoDirs[i], todoDirs[j])
        /\ \A i \in DOMAIN todoDirs, q \in DirPaths :
              (Len(q) < Len(todoDirs[i]) /\ IsPrefix(q, todoDirs[i]))
                  => q \notin Range(todoDirs)

\* From the sources /g and /d the collector gave the empty directories /d and
\* /g/h, in this order, and not /g, which holds /g/h alone.
C23_Witness ==
    /\ Collected
    /\ opts.src = <<<<"g">>, <<"d">>>>
    /\ todoDirs = <<<<"d">>, <<"g", "h">>>>
    /\ todo = <<>>

\* The fields of a call that creates a directory: the remote path, besides
\* the model's own kind and fn.
DirFields == {"kind", "fn", "remote_path"}

\* C24: when the engine returns, exactly one create-directory call was issued
\* for each empty directory, carrying the remote path and no chunk, append,
\* compression or mode; each worker's reply to it, success or not, is its
\* outcome at that path; and when no file is collected no chunk call was
\* issued.
C24_EmptyDirectories ==
    /\ \A k \in DOMAIN calls :
          calls[k].kind = "dir" =>
              /\ DOMAIN calls[k] = DirFields
              /\ calls[k].remote_path = GetRemotePath(calls[k].fn)
    /\ Returned =>
          \A k \in DOMAIN EmptyDirs :
              LET d == EmptyDirs[k] IN
              /\ Len(DirCalls(d)) = 1
              /\ d \in DOMAIN dirReplies
              /\ \A m \in DOMAIN dirReplies[d] :
                    /\ m \in DOMAIN ret
                    /\ GetRemotePath(d) \in DOMAIN ret[m]
                    /\ ret[m][GetRemotePath(d)] = dirReplies[d][m]
    /\ Files = {} => \A k \in DOMAIN calls : calls[k].kind # "chunk"

\* The single source /d is an empty directory: one call was issued, to create
\* /out/d, t1 answered it with an error and t2 with success, and both replies
\* are in the result the engine returned.
C24_Witness ==
    /\ Returned
    /\ opts.src = <<<<"d">>>>
    /\ Len(calls) = 1
    /\ calls[1] = [kind |-> "dir", fn |-> <<"d">>, remote_path |-> <<"out", "d">>]
    /\ ret = [m \in Minions |->
                (<<"out", "d">> :> (IF m = "t1" THEN "e1" ELSE Success))]

\* The message at the head of the subscription is a Work or an Interrupt
\* event with a worker id.
HeadIsWorkLike ==
    /\ channel # <<>>
    /\ Head(channel) \in ControlEvents
    /\ Head(channel).mtype \in {WORK, INTERRUPT}

\* C25: an Interrupt is handled as a Work is: both take the same branch of
\* the loop, and what consuming either does to pingCount, workCount, the
\* output and the exit of the loop is the same function of the state before,
\* in which the type of the event does not occur.
C25_InterruptAsWork ==
    /\ [](\A w \in Workers : Branch(Ctrl(INTERRUPT, w)) = Branch(Ctrl(WORK, w)))
    /\ [][(Consumes /\ HeadIsWorkLike) =>
            /\ work1stcount' = work1stcount + 1
            /\ ping1stCount' = ping1stCount
            /\ pc' = IF /\ ping1stCount = work1stcount + 1
                        /\ work1stcount + 1 = Cardinality(comeSubList)
                     THEN "done" ELSE "listen"
            /\ UNCHANGED <<comeSubList, sink, tracebacks>>]_vars

\* The loop has exited on an Interrupt of w1, the only accepted worker: the
\* one Work or Interrupt consumed was an Interrupt, after w1's Ping.
C25_Witness ==
    /\ pc = "done"
    /\ sawInterrupt
    /\ comeSubList = {"w1"}
    /\ pingsOf["w1"] = 1
    /\ worksOf = [w \in Workers |-> IF w = "w1" THEN 1 ELSE 0]

\* The message at the head of the subscription is one that the claim says
\* leaves the counters alone: a data event, a control event of unknown type,
\* a Ping of a worker that is not accepted, a broker message that is no
\* payload message.
HeadIsNeutral ==
    /\ channel # <<>>
    /\ \/ Head(channel) \in {Data(r) : r \in Payloads}
       \/ Head(channel) = Ctrl(UnknownType, "w1")
       \/ \E w \in Workers \ comeSubList : Head(channel) = Ctrl(PING, w)
       \/ Head(channel) = BrokerNote

\* C26: after the acceptance step acceptedSet never changes; pingCount and
\* workCount never decrease, and a step changes at most one of them, by 1;
\* consuming a data event, a control event of unknown type, a Ping of a
\* worker that is not accepted or a broker message changes neither.
C26_FrameMonotonic ==
    /\ [][Listening => comeSubList' = comeSubList]_vars
    /\ [][/\ ping1stCount' >= ping1stCount
          /\ work1stcount' >= work1stcount
          /\ (ping1stCount' - ping1stCount) + (work1stcount' - work1stcount) <= 1]_vars
    /\ [][(Consumes /\ HeadIsNeutral) =>
            UNCHANGED <<ping1stCount, work1stcount>>]_vars

\* A Ping of w2, which is not accepted, and a data event were consumed and
\* both counters are still 0.
C26_Witness ==
    /\ pc = "listen"
    /\ comeSubList = {"w1"}
    /\ pingsOf["w2"] = 1
    /\ Len(dataLog) = 1
    /\ ping1stCount = 0
    /\ work1stcount = 0
    /\ channel = <<>>

\* C27 (as stated): when the acceptance step returns an empty acceptedSet the
\* terminal condition holds at once and the barrier is Complete instead of
\* waiting for events.
C27_NoAcceptorsComplete ==
    (Listening /\ comeSubList = {}) => (Terminal /\ pc = "done")

\* What the loop does with an empty acceptedSet: it never exits, whatever is
\* consumed.
C27_NoAcceptorsBlocked ==
    (Listening /\ comeSubList = {}) => pc = "listen"

\* The outcome the returned result holds for worker m at the remote path of
\* file f is success.
ReportsSuccess(m, f) ==
    /\ m \in DOMAIN ret
    /\ GetRemotePath(f) \in DOMAIN ret[m]
    /\ ret[m][GetRemotePath(f)] = Success

\* C28 (as stated): if the returned result records success for worker W at a
\* file's remote path, then W replied success to every chunk call issued for
\* that file, the last one included; a worker missing from the replies of a
\* later chunk is not reported as success.
C28_SuccessMeansAcknowledged ==
    Returned =>
        \A f \in Files, m \in Minions :
            ReportsSuccess(m, f) => <<f, m>> \notin unacked

\* C28, the failing run: one file of two chunks; t1 and t2 reply success to
\* the first chunk, t2 alone replies to the second, and the returned result
\* still holds success for t1.
C28_MissingReplier ==
    /\ Returned
    /\ opts.src = <<<<"a", "x">>>>
    /\ Len(ChunkCalls(<<"a", "x">>)) = 2
    /\ pubFailAt = EmptyDict
    /\ <<<<"a", "x">>, "t1">> \in unacked
    /\ <<<<"a", "x">>, "t2">> \notin unacked
    /\ ReportsSuccess("t1", <<"a", "x">>)

\* C29 (as stated, its first half): for every file the collector produced, a
\* zero-length file included, at least one remote call has been issued when
\* the engine returns.
C29_EveryFileTransferred ==
    Returned => \A f \in Files : Len(ChunkCalls(f)) > 0

\* C29, the second half: when the engine returns, a target that replied
\* success to every chunk call of a file of which a chunk was sent has an
\* outcome recorded at that file's remote path.
C29_RepliersRecorded ==
    Returned =>
        \A f \in Transferred, m \in Minions :
            <<f, m>> \notin unacked =>
                /\ m \in DOMAIN ret
                /\ GetRemotePath(f) \in DOMAIN ret[m]

\* C29: only a file of zero length is left without a call.
C29_OnlyEmptyFilesSkipped ==
    Returned => \A f \in Files : opts.size[f] > 0 => Len(ChunkCalls(f)) > 0

\* The local paths the operation collected: the files and the empty
\* directories.
CollectedPaths == Files \cup Range(EmptyDirs)

\* C30 (as stated): two different collected local paths of one operation never
\* resolve to the same remote path.
C30_RemotePathsDistinct ==
    \A f \in CollectedPaths, g \in CollectedPaths :
        f # g => GetRemotePath(f) # GetRemotePath(g)

\* C30, the failing run: /a/x and /b/x are both sent to /out/x; t1 replied an
\* error to /a/x and success to /b/x, and the returned result holds success
\* alone at /out/x.
C30_Overwritten ==
    /\ Returned
    /\ opts.src = <<<<"a", "x">>, <<"b", "x">>>>
    /\ Len(calls) = 2
    /\ calls[1].fn = <<"a", "x">> /\ calls[2].fn = <<"b", "x">>
    /\ calls[1].remote_path = calls[2].remote_path
    /\ <<<<"a", "x">>, "t1">> \in unacked
    /\ <<<<"b", "x">>, "t1">> \notin unacked
    /\ ret["t1"] = (<<"out", "x">> :> Success)

\* C30: explicit sources with different basenames have different remote
\* paths.
C30_DistinctBasenames ==
    \A f \in Files, g \in Files :
        (f \in Range(opts.src) /\ g \in Range(opts.src)
            /\ Basename(f) # Basename(g))
        => GetRemotePath(f) # GetRemotePath(g)

\* The create-directory call for directory d returned no reply at all.
DirPublishFailed(d) == d \in DOMAIN dirReplies /\ DOMAIN dirReplies[d] = {}

\* C31 (as stated): when the create-directory call for an empty directory
\* returns no replies, every target ends with an outcome other than success
\* at that directory's remote path, and the remaining directories are still
\* processed.
C31_DirTransportFailure ==
    Returned =>
        /\ \A k \in DOMAIN EmptyDirs :
              DirPublishFailed(EmptyDirs[k]) =>
                  \A m \in Minions :
                      /\ m \in DOMAIN ret
                      /\ GetRemotePath(EmptyDirs[k]) \in DOMAIN ret[m]
                      /\ ret[m][GetRemotePath(EmptyDirs[k])] # Success
        /\ \A k \in DOMAIN EmptyDirs : Len(DirCalls(EmptyDirs[k])) = 1

\* C31, what the loop does with a create-directory call that returns no
\* replies: the result is left as it was, and the loop goes on to the next
\* directory.
C31_DirFailureUnrecorded ==
    [][(/\ cpc = "dirwait"
        /\ cpc' = "dirs"
        /\ Head(todoDirs) \in DOMAIN dirReplies'
        /\ DOMAIN dirReplies'[Head(todoDirs)] = {})
         => (ret' = ret /\ todoDirs' = Tail(todoDirs))]_vars

\* C31, the failing run: the sources are /e and /d; the call creating /out/e
\* returned no replies, the call creating /out/d was answered with success by
\* both targets, and the returned result holds nothing at /out/e.
C31_SilentDirFailure ==
    /\ Returned
    /\ opts.src = <<<<"e">>, <<"d">>>>
    /\ DirPublishFailed(<<"e">>)
    /\ Len(DirCalls(<<"d">>)) = 1
    /\ ret = [m \in Minions |-> (<<"out", "d">> :> Success)]

\* The target-list file could be read and holds at least one identifier.
ReadableTargets == tgtFile \in {"comma", "newline", "single"}

\* The barrier mode has gone on to the subscription: it is about to
\* subscribe, or has subscribed and is publishing, accepting or listening.
Proceeded ==
    /\ spc = "started"
    /\ pc \in {"subscribe", "publish", "accept", "listen", "done"}
    /\ pc # "subscribe" => subscribed
    /\ pc \in {"accept", "listen", "done"} => published

\* C32 (as stated): in the barrier mode, once a readable and non-empty
\* target-list file has been read, one holding a single identifier included,
\* the operation goes on to subscribe, publish and listen; it never ends
\* without having published and without an error exit.
C32_ReadableTargetsProceed ==
    (TargetsRead /\ ReadableTargets) =>
        /\ Proceeded
        /\ ~(spc = "returned" /\ ~published /\ exitCode = 0)

\* C32, the part that holds: a file that holds a list with commas or with
\* newlines makes the operation go on to the subscription.
C32_ListsProceed ==
    (TargetsRead /\ tgtFile \in {"comma", "newline"}) => Proceeded

\* C32, the failing run: the file holds one identifier; the method has
\* returned, nothing was subscribed or published, and the exit status is 0.
C32_SilentReturn ==
    /\ TargetsRead
    /\ tgtFile = "single"
    /\ spc = "returned"
    /\ pc = "idle"
    /\ ~subscribed
    /\ ~published
    /\ exitCode = 0

====
